---- MODULE Spec2Model ----
(***************************************************************************)
(* Model of the user CRUD service: the users table with its storage-level  *)
(* constraints, the per-request database session, the five endpoint        *)
(* handlers of api/users.py (one action per database round trip, which is  *)
(* where a handler can be suspended), and the global fault handlers of     *)
(* main.py.  Requests run concurrently in NumReq slots.                     *)
(***************************************************************************)
EXTENDS Integers, Sequences, FiniteSets, TLC

\* ---------------------------------------------------------------- bounds
NumReq == 2
MaxId == 3
MaxClock == 2
MaxPage == 2
MaxPerPage == 2
MaxSetFields == 1
MaxRequests == 2
MaxMajor == 4
MaxMinor == 9
MaxMicro == 1
MaxReturnCode == 2

\* per_page: Query(10, ge=1, le=100)
PerPageMax == 100

Req == 1..NumReq
Ids == 1..MaxId

\* ---------------------------------------------------------------- values
Null == "NULL"
Unset == "UNSET"
Usernames == {"u1", "u2"}
Emails == {"e1", "e2"}
FullNames == {Null, "n1"}
Bools == {"true", "false"}

Fields == {"username", "email", "full_name", "is_active", "is_superuser"}

\* UserCreate: username and email required, the other three defaulted.
UserCreate(username, email, full_name, is_active, is_superuser) ==
    [username |-> username, email |-> email,
     full_name |-> IF full_name = Unset THEN Null ELSE full_name,
     is_active |-> IF is_active = Unset THEN "true" ELSE is_active,
     is_superuser |-> IF is_superuser = Unset THEN "false" ELSE is_superuser]

CreateBodies ==
    {UserCreate(u, e, p[1], p[2], p[3]) :
        u \in Usernames, e \in Emails,
        p \in {<<Unset, Unset, Unset>>, <<"n1", "false", "true">>}}

\* UserUpdate: every field Optional, so absent or an explicit null is accepted
\* (the explicit null is drawn for username and full_name).
UpdateFieldValues(f) ==
    CASE f = "username" -> Usernames \cup {Null}
      [] f = "email" -> Emails
      [] f = "full_name" -> FullNames
      [] f = "is_active" -> Bools
      [] f = "is_superuser" -> Bools

SetFields(body) == {f \in Fields : body[f] # Unset}

UpdateBodies ==
    {b \in [Fields -> Usernames \cup Emails \cup FullNames \cup Bools \cup {Null, Unset}] :
        /\ \A f \in Fields : b[f] = Unset \/ b[f] \in UpdateFieldValues(f)
        /\ Cardinality(SetFields(b)) <= MaxSetFields}

NoBody == [f \in Fields |-> Unset]

\* A persisted row of table users (CommonModel columns + User columns).
NoObj == [id |-> 0, username |-> Null, email |-> Null, full_name |-> Null,
          is_active |-> Null, is_superuser |-> Null, created_at |-> 0, updated_at |-> 0]

\* ---------------------------------------------------------------- state
VARIABLES
    users,          \* rows of table users
    nextId,         \* the id sequence of the table
    now,            \* the database server's clock
    is_production,  \* app_config.is_production
    pc,             \* per request: where its handler is
    args,           \* per request: kind, user_id, body, page, per_page
    sess,           \* per request: its database session
    txn,            \* per request: start time of its open transaction
    obj,            \* per request: the ORM object the handler holds
    items,          \* per request: the page of rows read by get_users
    fault,          \* per request: the fault raised, and where
    resp,           \* per request: the response produced
    gone,           \* ids whose delete request has returned 200
    started,        \* number of requests received so far
    host,           \* the machine the setup script runs on
    setup           \* the setup script: position, steps run, exit status

vars == <<users, nextId, now, is_production, pc, args, sess, txn, obj, items, fault, resp,
          gone, started, host, setup>>


\* ---------------------------------------------------------------- faults
NoFault == [cls |-> "none", at |-> "none"]

\* Faults the environment can raise at a database round trip: a storage fault
\* (a SQLAlchemyError such as OperationalError) or an unclassified one.
EnvFaults == {"OperationalError", "RuntimeError"}

\* IntegrityError wraps the driver's unique or not-null violation.
IsIntegrityError(cls) == cls \in {"IntegrityError(unique)", "IntegrityError(notnull)"}

IsSQLAlchemyError(cls) ==
    \/ IsIntegrityError(cls)
    \/ cls \in {"StaleDataError", "InvalidRequestError", "OperationalError"}

\* str(e): the fault's own textual description (internal detail).
Str(cls) ==
    CASE cls = "IntegrityError(unique)" ->
             "(asyncpg) IntegrityError: duplicate key value violates unique constraint [SQL: ...]"
      [] cls = "IntegrityError(notnull)" ->
             "(asyncpg) IntegrityError: null value violates not-null constraint [SQL: ...]"
      [] cls = "StaleDataError" -> "UPDATE statement on table 'users' expected to update 1 row(s); 0 were matched."
      [] cls = "InvalidRequestError" -> "Could not refresh instance '<User>'"
      [] cls = "OperationalError" -> "(asyncpg) OperationalError: connection was closed [SQL: ...]"
      [] cls = "RuntimeError" -> "RuntimeError: internal detail"
      [] OTHER -> ""

InternalTexts ==
    {Str(c) : c \in {"IntegrityError(unique)", "IntegrityError(notnull)", "StaleDataError",
                     "InvalidRequestError", "OperationalError", "RuntimeError"}}

\* ---------------------------------------------------------------- responses
NoResp == [layer |-> "none", status_code |-> 0, error |-> "", message |-> "",
           shape |-> "null", data |-> <<>>, total |-> -1, page |-> 0, per_page |-> 0]

\* ApiHelpers._serialize_value on a datetime: isoformat()
SerializeValue(t) == <<"iso", t>>

\* ApiHelpers._serialize_sqlalchemy_obj: one entry per mapped column
SerializeObj(o) ==
    [id |-> o.id, username |-> o.username, email |-> o.email, full_name |-> o.full_name,
     is_active |-> o.is_active, is_superuser |-> o.is_superuser,
     created_at |-> SerializeValue(o.created_at), updated_at |-> SerializeValue(o.updated_at)]

\* ApiHelpers._serialize_data: a list is converted element-wise
SerializeData(seq) == [i \in 1..Len(seq) |-> SerializeObj(seq[i])]

\* ApiHelpers.endpointResponse: data is None, one object, or a list (shape)
EndpointResponse(status_code, message, shape, data, total, page, per_page) ==
    [layer |-> "endpoint", status_code |-> status_code, error |-> "", message |-> message,
     shape |-> shape, data |-> SerializeData(data), total |-> total, page |-> page,
     per_page |-> per_page]

Plain(status_code, message) == EndpointResponse(status_code, message, "null", <<>>, -1, 0, 0)

WithObj(status_code, message, o) ==
    EndpointResponse(status_code, message, "object", <<o>>, -1, 0, 0)

\* No except clause: the fault leaves the endpoint.
Caught_Propagates(cls) ==
    [layer |-> "global", status_code |-> 500, error |-> "Internal Server Error",
     message |-> Str(cls), shape |-> "null", data |-> <<>>, total |-> -1, page |-> 0,
     per_page |-> 0]

\* except Exception as e: endpointResponse(500, str(e))
Caught(cls) == Plain(500, Str(cls))

\* main.create_error_response (path and timestamp are not modelled)
CreateErrorResponse(error_type, message, status_code) ==
    [layer |-> "global", status_code |-> status_code, error |-> error_type,
     message |-> message, shape |-> "null", data |-> <<>>, total |-> -1, page |-> 0,
     per_page |-> 0]

ValidationExceptionHandler ==
    CreateErrorResponse("Validation Error", "Request validation failed", 422)

SqlalchemyExceptionHandler(cls) ==
    CreateErrorResponse("Database Error",
        IF is_production THEN "A database error occurred" ELSE Str(cls), 500)

GeneralExceptionHandler(cls) ==
    CreateErrorResponse("Internal Server Error",
        IF is_production THEN "An unexpected error occurred" ELSE Str(cls), 500)

\* The handler registered for the closest class of the fault
GlobalHandler(cls) ==
    IF cls = "RequestValidationError" THEN ValidationExceptionHandler
    ELSE IF IsSQLAlchemyError(cls) THEN SqlalchemyExceptionHandler(cls)
    ELSE GeneralExceptionHandler(cls)

\* ---------------------------------------------------------------- storage
Min(a, b) == IF a < b THEN a ELSE b
Max(a, b) == IF a > b THEN a ELSE b

\* The where clause dropped.
Lookup_NoFilter(user_id) == users

\* select(User).where(User.id == user_id)
Lookup(user_id) == {u \in users : u.id = user_id}

RECURSIVE SortedRows(_)
SortedRows(S) ==
    IF S = {} THEN <<>>
    ELSE LET m == CHOOSE u \in S : \A v \in S : u.id <= v.id
         IN <<m>> \o SortedRows(S \ {m})

\* Pages counted from 0.
Offset_PageTimes(page, per_page) == page * per_page

\* offset = (page - 1) * per_page
Offset(page, per_page) == (page - 1) * per_page

\* The delete never committed.
RowsAfterDelete_NotCommitted(id) == users

\* DELETE FROM users WHERE id = ..., committed
RowsAfterDelete(id) == {u \in users : u.id # id}

\* select(User).offset(offset).limit(per_page), rows in primary-key order
Page(offset, limit) ==
    LET s == SortedRows(users)
        last == Min(Len(s), offset + limit)
    IN IF offset + 1 > last THEN <<>> ELSE SubSeq(s, offset + 1, last)

\* The unique constraint on email missing.
UniqueOk_UsernameOnly(row, others) ==
    \A u \in others : u.username # row.username

\* The unique constraint on username missing.
UniqueOk_EmailOnly(row, others) ==
    \A u \in others : u.email # row.email

\* unique=True on username and on email
UniqueOk(row, others) ==
    \A u \in others : u.username # row.username /\ u.email # row.email

\* nullable=False on username, email, is_active, is_superuser
NotNullOk(row) ==
    /\ row.username # Null
    /\ row.email # Null
    /\ row.is_active # Null
    /\ row.is_superuser # Null

\* The flags supplied by the caller dropped: the column defaults are stored.
NewRow_DefaultFlags(id, body, t) ==
    [id |-> id, username |-> body.username, email |-> body.email,
     full_name |-> body.full_name, is_active |-> "true",
     is_superuser |-> "false", created_at |-> t, updated_at |-> t]

\* The row INSERTed for User(**fields): id from the sequence, both timestamps
\* from server_default=func.now() of the same statement.
NewRow(id, body, t) ==
    [id |-> id, username |-> body.username, email |-> body.email,
     full_name |-> body.full_name, is_active |-> body.is_active,
     is_superuser |-> body.is_superuser, created_at |-> t, updated_at |-> t]

\* Attributes whose setattr value differs from the loaded one: the columns of
\* the UPDATE the unit of work emits at flush.
NetChanges(body, o) == {f \in SetFields(body) : body[f] # o[f]}

\* Variant: updated_at is stamped from a clock that runs behind the server's.
UpdatedRow_StaleClock(cur, body, changes, t) ==
    [id |-> cur.id,
     username |-> IF "username" \in changes THEN body.username ELSE cur.username,
     email |-> IF "email" \in changes THEN body.email ELSE cur.email,
     full_name |-> IF "full_name" \in changes THEN body.full_name ELSE cur.full_name,
     is_active |-> IF "is_active" \in changes THEN body.is_active ELSE cur.is_active,
     is_superuser |-> IF "is_superuser" \in changes THEN body.is_superuser ELSE cur.is_superuser,
     created_at |-> cur.created_at,
     updated_at |-> t - 1]

\* onupdate=func.now() given to created_at as well.
UpdatedRow_TouchesCreatedAt(cur, body, changes, t) ==
    [id |-> cur.id,
     username |-> IF "username" \in changes THEN body.username ELSE cur.username,
     email |-> IF "email" \in changes THEN body.email ELSE cur.email,
     full_name |-> IF "full_name" \in changes THEN body.full_name ELSE cur.full_name,
     is_active |-> IF "is_active" \in changes THEN body.is_active ELSE cur.is_active,
     is_superuser |-> IF "is_superuser" \in changes THEN body.is_superuser ELSE cur.is_superuser,
     created_at |-> t + 1,
     updated_at |-> t + 1]

\* UPDATE users SET <changed columns>, updated_at=now() WHERE id = ...
UpdatedRow(cur, body, changes, t) ==
    [id |-> cur.id,
     username |-> IF "username" \in changes THEN body.username ELSE cur.username,
     email |-> IF "email" \in changes THEN body.email ELSE cur.email,
     full_name |-> IF "full_name" \in changes THEN body.full_name ELSE cur.full_name,
     is_active |-> IF "is_active" \in changes THEN body.is_active ELSE cur.is_active,
     is_superuser |-> IF "is_superuser" \in changes THEN body.is_superuser ELSE cur.is_superuser,
     created_at |-> cur.created_at,
     updated_at |-> t]


\* ---------------------------------------------------------------- requests
NoArgs == [kind |-> "none", user_id |-> 0, body |-> NoBody, page |-> 0, per_page |-> 0]

Pages == 0..MaxPage
PerPages == (0..MaxPerPage) \cup {PerPageMax + 1}

Requests ==
    {[kind |-> "create", user_id |-> 0, body |-> b, page |-> 0, per_page |-> 0] :
        b \in CreateBodies}
    \cup {[kind |-> "list", user_id |-> 0, body |-> NoBody, page |-> p, per_page |-> pp] :
        p \in Pages, pp \in PerPages}
    \cup {[kind |-> "get", user_id |-> i, body |-> NoBody, page |-> 0, per_page |-> 0] :
        i \in Ids}
    \cup {[kind |-> "update", user_id |-> i, body |-> b, page |-> 0, per_page |-> 0] :
        i \in Ids, b \in UpdateBodies}
    \cup {[kind |-> "delete", user_id |-> i, body |-> NoBody, page |-> 0, per_page |-> 0] :
        i \in Ids}

\* Query(1, ge=1) and Query(10, ge=1, le=100); the bodies drawn above satisfy
\* their schemas.
ValidRequest(a) ==
    a.kind = "list" => (a.page >= 1 /\ a.per_page >= 1 /\ a.per_page <= PerPageMax)

Kinds == {"create", "list", "get", "update", "delete"}

\* The first database round trip of each handler
FirstPc(kind) ==
    CASE kind = "create" -> "create_commit"
      [] kind = "list" -> "list_select"
      [] kind = "get" -> "get_select"
      [] kind = "update" -> "update_select"
      [] kind = "delete" -> "delete_select"

BodyPcs == {"create_commit", "create_refresh", "list_select", "list_count", "get_select",
            "update_select", "update_commit", "update_refresh", "delete_select",
            "delete_commit"}

\* ---------------------------------------------------------------- setup script: values
\* sys.version_info, reduced to (major, minor, micro)
Versions == {<<ma, mi, mc>> : ma \in 2..MaxMajor, mi \in 0..MaxMinor, mc \in 0..MaxMicro}

\* The machines the script may be run on: interpreter version, and whether the
\* working directory holds a file .env
Hosts == [version : Versions, env_file : BOOLEAN]

NoHost == [version |-> <<>>, env_file |-> FALSE]

\* if sys.version_info < (3, 8)
MinPython == <<3, 8>>

\* What subprocess.run(..., check=True) may do: the command exits with a return
\* code, or the call raises something that is not a CalledProcessError.
NoOutcome == [rc |-> 0, error |-> "none"]
CommandOutcomes ==
    {[rc |-> n, error |-> "none"] : n \in 0..MaxReturnCode}
    \cup {[rc |-> 0, error |-> "OSError"], [rc |-> 0, error |-> "UnicodeDecodeError"]}

\* Python's ordering of tuples: the first differing element decides; when one
\* is a prefix of the other the shorter is the smaller.
TupleLess(a, b) ==
    \/ \E i \in 1..Min(Len(a), Len(b)) :
          a[i] < b[i] /\ \A j \in 1..(i - 1) : a[j] = b[j]
    \/ Len(a) < Len(b) /\ \A j \in 1..Len(a) : a[j] = b[j]

\* run_command: True when the command exited 0, False on CalledProcessError
\* (non-zero return code); any other error is not caught.
RunCommand_Unchecked(out) == IF out.error = "none" THEN "True" ELSE "raised"

RunCommand(out) ==
    IF out.error # "none" THEN "raised"
    ELSE IF out.rc = 0 THEN "True" ELSE "False"

\* The script before its first step, and when it is not being run.
SetupStart == [pc |-> "check_version", log |-> <<>>, status |-> <<>>]
NoSetup == [pc |-> "none", log |-> <<>>, status |-> <<>>]

\* Rows the table may hold when the service starts: each was inserted by an
\* earlier register request at time 1.
SeedRows ==
    {NewRow(1, UserCreate("u1", "e1", Unset, Unset, Unset), 1),
     NewRow(2, UserCreate("u2", "e2", "n1", "false", "true"), 1)}

\* The sequence is past every id it has handed out.
SeqAfter(T) == IF T = {} THEN 1 ELSE 1 + CHOOSE i \in Ids : \A u \in T : u.id <= i /\ \E v \in T : v.id = i

Init ==
    /\ users \in SUBSET SeedRows
    /\ nextId = SeqAfter(users)
    /\ now = 1
    /\ is_production \in BOOLEAN
    /\ pc = [r \in Req |-> "idle"]
    /\ args = [r \in Req |-> NoArgs]
    /\ sess = [r \in Req |-> "none"]
    /\ txn = [r \in Req |-> 0]
    /\ obj = [r \in Req |-> NoObj]
    /\ items = [r \in Req |-> <<>>]
    /\ fault = [r \in Req |-> NoFault]
    /\ resp = [r \in Req |-> NoResp]
    /\ gone = {}
    /\ started = 0
    /\ host = NoHost
    /\ setup = NoSetup

\* The database server's clock advances.
Tick ==
    /\ now < MaxClock
    /\ now' = now + 1
    /\ UNCHANGED <<users, nextId, is_production, host, setup, pc, args, sess, txn, obj, items, fault,
                   resp, gone, started>>

\* A request is served in the lowest slot that holds no request in flight.
FreeSlot(r) ==
    /\ pc[r] \in {"idle", "done"}
    /\ \A q \in Req : q < r => pc[q] \notin {"idle", "done"}

\* The request leaves with response rs; the handler's locals are dropped.
Leave(r, rs, f) ==
    /\ pc' = [pc EXCEPT ![r] = "exit"]
    /\ resp' = [resp EXCEPT ![r] = rs]
    /\ fault' = [fault EXCEPT ![r] = f]
    /\ args' = [args EXCEPT ![r] = [kind |-> args[r].kind, user_id |-> args[r].user_id,
                                    body |-> NoBody, page |-> 0, per_page |-> 0]]
    /\ txn' = [txn EXCEPT ![r] = 0]
    /\ obj' = [obj EXCEPT ![r] = NoObj]
    /\ items' = [items EXCEPT ![r] = <<>>]

\* A request arrives: get_db opens its session and yields it, the parameters
\* are validated, and the endpoint body is entered; a request that fails
\* validation is answered 422 by validation_exception_handler.
Start(r, a) ==
    /\ FreeSlot(r)
    /\ started' = started + 1
    /\ sess' = [sess EXCEPT ![r] = "open"]
    /\ txn' = [txn EXCEPT ![r] = 0]
    /\ obj' = [obj EXCEPT ![r] = NoObj]
    /\ items' = [items EXCEPT ![r] = <<>>]
    /\ IF ValidRequest(a)
       THEN /\ pc' = [pc EXCEPT ![r] = FirstPc(a.kind)]
            /\ args' = [args EXCEPT ![r] = a]
            /\ fault' = [fault EXCEPT ![r] = NoFault]
            /\ resp' = [resp EXCEPT ![r] = NoResp]
       ELSE /\ pc' = [pc EXCEPT ![r] = "exit"]
            /\ args' = [args EXCEPT ![r] = [NoArgs EXCEPT !.kind = a.kind]]
            /\ fault' = [fault EXCEPT ![r] = [cls |-> "RequestValidationError",
                                              at |-> "outside"]]
            /\ resp' = [resp EXCEPT ![r] = GlobalHandler("RequestValidationError")]
    /\ UNCHANGED <<users, nextId, now, is_production, host, setup, gone>>

\* A request arrives and a fault is raised outside the endpoint's try block
\* while it holds its session: the fault goes to the global handlers.
OutsideFault(r, kind, cls) ==
    /\ FreeSlot(r)
    /\ started' = started + 1
    /\ sess' = [sess EXCEPT ![r] = "open"]
    /\ txn' = [txn EXCEPT ![r] = 0]
    /\ obj' = [obj EXCEPT ![r] = NoObj]
    /\ items' = [items EXCEPT ![r] = <<>>]
    /\ pc' = [pc EXCEPT ![r] = "exit"]
    /\ args' = [args EXCEPT ![r] = [NoArgs EXCEPT !.kind = kind]]
    /\ fault' = [fault EXCEPT ![r] = [cls |-> cls, at |-> "outside"]]
    /\ resp' = [resp EXCEPT ![r] = GlobalHandler(cls)]
    /\ UNCHANGED <<users, nextId, now, is_production, host, setup, gone>>

\* A fault raised by a database round trip inside the endpoint's try block.
BodyFault(r, cls) ==
    /\ pc[r] \in BodyPcs
    /\ Leave(r, Caught(cls), [cls |-> cls, at |-> "body"])
    /\ UNCHANGED <<users, nextId, now, is_production, host, setup, sess, gone, started>>

\* No finally: the session is closed only when the request ends without a
\* fault passing through get_db.
Close_NoFinally(r) ==
    /\ pc[r] = "exit"
    /\ pc' = [pc EXCEPT ![r] = "done"]
    /\ sess' = [sess EXCEPT ![r] = IF fault[r].at = "outside" THEN "open" ELSE "closed"]
    /\ args' = [args EXCEPT ![r] = NoArgs]
    /\ resp' = [resp EXCEPT ![r] = NoResp]
    /\ UNCHANGED <<users, nextId, now, is_production, host, setup, txn, obj, items, fault, gone, started>>

\* get_db: finally: await session.close()
Close(r) ==
    /\ pc[r] = "exit"
    /\ pc' = [pc EXCEPT ![r] = "done"]
    /\ sess' = [sess EXCEPT ![r] = "closed"]
    /\ args' = [args EXCEPT ![r] = NoArgs]
    /\ resp' = [resp EXCEPT ![r] = NoResp]
    /\ UNCHANGED <<users, nextId, now, is_production, host, setup, txn, obj, items, fault, gone, started>>


\* ---------------------------------------------------------------- create_user
\* db.add(db_user); await db.commit(): the INSERT takes an id from the sequence
\* (also when it fails) and is rejected by a unique constraint, or is committed.
CreateCommit(r) ==
    /\ pc[r] = "create_commit"
    /\ nextId <= MaxId
    /\ nextId' = nextId + 1
    /\ LET row == NewRow(nextId, args[r].body, now)
       IN IF UniqueOk(row, users)
          THEN /\ users' = users \cup {row}
               /\ obj' = [obj EXCEPT ![r] = row]
               /\ pc' = [pc EXCEPT ![r] = "create_refresh"]
               /\ args' = [args EXCEPT ![r].body = NoBody]
               /\ UNCHANGED <<resp, fault, txn, items>>
          ELSE /\ users' = users
               /\ Leave(r, Plain(400, "User already exists"),
                        [cls |-> "IntegrityError(unique)", at |-> "body"])
    /\ UNCHANGED <<now, is_production, host, setup, sess, gone, started>>

\* await db.refresh(db_user); return 201.  refresh raises InvalidRequestError
\* when the row is no longer there.
CreateRefresh(r) ==
    /\ pc[r] = "create_refresh"
    /\ LET found == Lookup(obj[r].id)
       IN IF found = {}
          THEN Leave(r, Caught("InvalidRequestError"),
                     [cls |-> "InvalidRequestError", at |-> "body"])
          ELSE \E u \in found :
                  Leave(r, WithObj(201, "User created successfully", u), NoFault)
    /\ UNCHANGED <<users, nextId, now, is_production, host, setup, sess, gone, started>>

\* ---------------------------------------------------------------- get_users
ListSelect(r) ==
    /\ pc[r] = "list_select"
    /\ LET offset == Offset(args[r].page, args[r].per_page)
       IN items' = [items EXCEPT ![r] = Page(offset, args[r].per_page)]
    /\ pc' = [pc EXCEPT ![r] = "list_count"]
    /\ UNCHANGED <<users, nextId, now, is_production, host, setup, args, sess, txn, obj, fault, resp,
                   gone, started>>

\* total = select(func.count(User.id)); return 200
ListCount(r) ==
    /\ pc[r] = "list_count"
    /\ Leave(r, EndpointResponse(200, "Users fetched successfully", "list", items[r],
                                 Cardinality(users), args[r].page, args[r].per_page),
             NoFault)
    /\ UNCHANGED <<users, nextId, now, is_production, host, setup, sess, gone, started>>

\* ---------------------------------------------------------------- get_user
GetSelect(r) ==
    /\ pc[r] = "get_select"
    /\ LET found == Lookup(args[r].user_id)
       IN IF found = {}
          THEN Leave(r, Plain(404, "User not found"), NoFault)
          ELSE \E u \in found :
                  Leave(r, WithObj(200, "User fetched successfully", u), NoFault)
    /\ UNCHANGED <<users, nextId, now, is_production, host, setup, sess, gone, started>>

\* ---------------------------------------------------------------- update_user
\* The lookup begins the session's transaction; now() is its start time.
UpdateSelect(r) ==
    /\ pc[r] = "update_select"
    /\ LET found == Lookup(args[r].user_id)
       IN IF found = {}
          THEN Leave(r, Plain(404, "User not found"), NoFault)
          ELSE \E u \in found :
                  /\ obj' = [obj EXCEPT ![r] = u]
                  /\ txn' = [txn EXCEPT ![r] = now]
                  /\ pc' = [pc EXCEPT ![r] = "update_commit"]
                  /\ UNCHANGED <<args, resp, fault, items>>
    /\ UNCHANGED <<users, nextId, now, is_production, host, setup, sess, gone, started>>

\* Variant: the commit writes the loaded object back with an upsert, so a row
\* deleted since the lookup is inserted again.
UpdateCommit_Upsert(r) ==
    /\ pc[r] = "update_commit"
    /\ LET changes == NetChanges(args[r].body, obj[r])
           found == Lookup(obj[r].id)
           base == IF found = {} THEN {obj[r]} ELSE found
       IN IF changes = {}
          THEN /\ users' = users
               /\ pc' = [pc EXCEPT ![r] = "update_refresh"]
               /\ args' = [args EXCEPT ![r].body = NoBody]
               /\ txn' = [txn EXCEPT ![r] = 0]
               /\ UNCHANGED <<resp, fault, obj, items>>
          ELSE \E cur \in base :
                 LET row == UpdatedRow(cur, args[r].body, changes, txn[r])
                     cls == IF NotNullOk(row) THEN "IntegrityError(unique)"
                            ELSE "IntegrityError(notnull)"
                 IN IF NotNullOk(row) /\ UniqueOk(row, users \ {cur})
                    THEN /\ users' = (users \ {cur}) \cup {row}
                         /\ pc' = [pc EXCEPT ![r] = "update_refresh"]
                         /\ args' = [args EXCEPT ![r].body = NoBody]
                         /\ txn' = [txn EXCEPT ![r] = 0]
                         /\ UNCHANGED <<resp, fault, obj, items>>
                    ELSE /\ users' = users
                         /\ Leave(r, Caught(cls), [cls |-> cls, at |-> "body"])
    /\ UNCHANGED <<nextId, now, is_production, host, setup, sess, gone, started>>

\* setattr for the fields present; await db.commit().  No UPDATE is emitted
\* when no attribute changed; an UPDATE matching no row raises StaleDataError;
\* one violating NOT NULL or a unique constraint raises IntegrityError.
UpdateCommit(r) ==
    /\ pc[r] = "update_commit"
    /\ LET changes == NetChanges(args[r].body, obj[r])
           found == Lookup(obj[r].id)
       IN IF changes = {}
          THEN /\ users' = users
               /\ pc' = [pc EXCEPT ![r] = "update_refresh"]
               /\ args' = [args EXCEPT ![r].body = NoBody]
               /\ txn' = [txn EXCEPT ![r] = 0]
               /\ UNCHANGED <<resp, fault, obj, items>>
          ELSE IF found = {}
          THEN /\ users' = users
               /\ Leave(r, Caught("StaleDataError"),
                        [cls |-> "StaleDataError", at |-> "body"])
          ELSE \E cur \in found :
                 LET row == UpdatedRow(cur, args[r].body, changes, txn[r])
                     cls == IF NotNullOk(row) THEN "IntegrityError(unique)"
                            ELSE "IntegrityError(notnull)"
                 IN IF NotNullOk(row) /\ UniqueOk(row, users \ {cur})
                    THEN /\ users' = (users \ {cur}) \cup {row}
                         /\ pc' = [pc EXCEPT ![r] = "update_refresh"]
                         /\ args' = [args EXCEPT ![r].body = NoBody]
                         /\ txn' = [txn EXCEPT ![r] = 0]
                         /\ UNCHANGED <<resp, fault, obj, items>>
                    ELSE /\ users' = users
                         /\ Leave(r, Caught(cls), [cls |-> cls, at |-> "body"])
    /\ UNCHANGED <<nextId, now, is_production, host, setup, sess, gone, started>>

\* await db.refresh(user); return 200
UpdateRefresh(r) ==
    /\ pc[r] = "update_refresh"
    /\ LET found == Lookup(obj[r].id)
       IN IF found = {}
          THEN Leave(r, Caught("InvalidRequestError"),
                     [cls |-> "InvalidRequestError", at |-> "body"])
          ELSE \E u \in found :
                  Leave(r, WithObj(200, "User updated successfully", u), NoFault)
    /\ UNCHANGED <<users, nextId, now, is_production, host, setup, sess, gone, started>>

\* ---------------------------------------------------------------- delete_user
DeleteSelect(r) ==
    /\ pc[r] = "delete_select"
    /\ LET found == Lookup(args[r].user_id)
       IN IF found = {}
          THEN Leave(r, Plain(404, "User not found"), NoFault)
          ELSE \E u \in found :
                  /\ obj' = [obj EXCEPT ![r] = u]
                  /\ pc' = [pc EXCEPT ![r] = "delete_commit"]
                  /\ UNCHANGED <<args, resp, fault, txn, items>>
    /\ UNCHANGED <<users, nextId, now, is_production, host, setup, sess, gone, started>>

\* await db.delete(user); await db.commit(); return 200.  A DELETE matching no
\* row only warns (no version counter is mapped).
DeleteCommit(r) ==
    /\ pc[r] = "delete_commit"
    /\ users' = RowsAfterDelete(obj[r].id)
    /\ gone' = gone \cup {obj[r].id}
    /\ Leave(r, Plain(200, "User deleted successfully"), NoFault)
    /\ UNCHANGED <<nextId, now, is_production, host, setup, sess, started>>

\* ---------------------------------------------------------------- system
Next ==
    \/ Tick
    \/ \E r \in Req : \E a \in Requests : started < MaxRequests /\ Start(r, a)
    \/ \E r \in Req : \E k \in Kinds : \E cls \in EnvFaults :
          started < MaxRequests /\ OutsideFault(r, k, cls)
    \/ \E r \in Req : \E cls \in EnvFaults : BodyFault(r, cls)
    \/ \E r \in Req : CreateCommit(r)
    \/ \E r \in Req : CreateRefresh(r)
    \/ \E r \in Req : ListSelect(r)
    \/ \E r \in Req : ListCount(r)
    \/ \E r \in Req : GetSelect(r)
    \/ \E r \in Req : UpdateSelect(r)
    \/ \E r \in Req : UpdateCommit(r)
    \/ \E r \in Req : UpdateRefresh(r)
    \/ \E r \in Req : DeleteSelect(r)
    \/ \E r \in Req : DeleteCommit(r)
    \/ \E r \in Req : Close(r)

Spec == Init /\ [][Next]_vars

\* The same service when requests arrive one at a time: a request is received
\* only when no other is in flight.
Quiet == \A q \in Req : pc[q] \in {"idle", "done"}

SeqNext ==
    \/ Tick
    \/ \E r \in Req : \E a \in Requests : Quiet /\ started < MaxRequests /\ Start(r, a)
    \/ \E r \in Req : \E k \in Kinds : \E cls \in EnvFaults :
          Quiet /\ started < MaxRequests /\ OutsideFault(r, k, cls)
    \/ \E r \in Req : \E cls \in EnvFaults : BodyFault(r, cls)
    \/ \E r \in Req : CreateCommit(r)
    \/ \E r \in Req : CreateRefresh(r)
    \/ \E r \in Req : ListSelect(r)
    \/ \E r \in Req : ListCount(r)
    \/ \E r \in Req : GetSelect(r)
    \/ \E r \in Req : UpdateSelect(r)
    \/ \E r \in Req : UpdateCommit(r)
    \/ \E r \in Req : UpdateRefresh(r)
    \/ \E r \in Req : DeleteSelect(r)
    \/ \E r \in Req : DeleteCommit(r)
    \/ \E r \in Req : Close(r)

SeqSpec == Init /\ [][SeqNext]_vars

TypeOK ==
    /\ nextId \in 1..(MaxId + 1)
    /\ now \in 1..MaxClock
    /\ \A r \in Req : pc[r] \in BodyPcs \cup {"idle", "exit", "done"}
    /\ \A u \in users : u.id \in Ids /\ u.id < nextId


\* ---------------------------------------------------------------- setup script
\* The service is not running while the script runs.
serviceVars == <<users, nextId, now, is_production, pc, args, sess, txn, obj, items, fault,
                 resp, gone, started>>

SetupInit ==
    /\ users = {}
    /\ nextId = 1
    /\ now = 1
    /\ is_production = FALSE
    /\ pc = [r \in Req |-> "idle"]
    /\ args = [r \in Req |-> NoArgs]
    /\ sess = [r \in Req |-> "none"]
    /\ txn = [r \in Req |-> 0]
    /\ obj = [r \in Req |-> NoObj]
    /\ items = [r \in Req |-> <<>>]
    /\ fault = [r \in Req |-> NoFault]
    /\ resp = [r \in Req |-> NoResp]
    /\ gone = {}
    /\ started = 0
    /\ host \in Hosts
    /\ setup = SetupStart

\* The step at the current position is carried out and enters the log.
Logged(step, out) == Append(setup.log, [step |-> step, out |-> out])

\* The step was carried out and the script goes on to the next one.
GoOn(step, out, next) ==
    setup' = [setup EXCEPT !.pc = next, !.log = Logged(step, out)]

\* sys.exit(code) after the step; an uncaught exception also ends the
\* interpreter with status 1.
SysExit(step, out, code) ==
    setup' = [pc |-> "exited", log |-> Logged(step, out), status |-> <<code>>]

\* check_prerequisites, first test; main exits 1 when it returns False
CheckPythonVersion ==
    /\ setup.pc = "check_version"
    /\ IF TupleLess(host.version, MinPython)
       THEN SysExit("check_version", NoOutcome, 1)
       ELSE GoOn("check_version", NoOutcome, "check_env")
    /\ UNCHANGED <<serviceVars, host>>

\* check_prerequisites, second test
CheckEnvFile ==
    /\ setup.pc = "check_env"
    /\ IF ~host.env_file
       THEN SysExit("check_env", NoOutcome, 1)
       ELSE GoOn("check_env", NoOutcome, "create_migration")
    /\ UNCHANGED <<serviceVars, host>>

\* setup_database: alembic revision --autogenerate
CreateMigration(out) ==
    /\ setup.pc = "create_migration"
    /\ IF RunCommand(out) = "True"
       THEN GoOn("create_migration", out, "apply_migrations")
       ELSE SysExit("create_migration", out, 1)
    /\ UNCHANGED <<serviceVars, host>>

\* setup_database: alembic upgrade head
ApplyMigrations(out) ==
    /\ setup.pc = "apply_migrations"
    /\ IF RunCommand(out) = "True"
       THEN GoOn("apply_migrations", out, "completed")
       ELSE SysExit("apply_migrations", out, 1)
    /\ UNCHANGED <<serviceVars, host>>

\* main prints the closing messages and returns: exit status 0
SetupCompleted ==
    /\ setup.pc = "completed"
    /\ setup' = [setup EXCEPT !.pc = "exited", !.status = <<0>>]
    /\ UNCHANGED <<serviceVars, host>>

SetupNext ==
    \/ CheckPythonVersion
    \/ CheckEnvFile
    \/ \E out \in CommandOutcomes : CreateMigration(out)
    \/ \E out \in CommandOutcomes : ApplyMigrations(out)
    \/ SetupCompleted

SetupSpec == SetupInit /\ [][SetupNext]_vars


\* ---------------------------------------------------------------- properties
\* Request r takes the step at p in this transition.
Step(r, p) == pc[r] = p /\ pc'[r] # p

\* ... and the database round trip at p was carried out (no fault cut it short).
Executed(r, p) == Step(r, p) /\ fault'[r].cls \notin EnvFaults

InFlight(r) == pc[r] \notin {"idle", "done"}

Conflicts(body) == \E u \in users : u.username = body.username \/ u.email = body.email

\* C1: a register request whose insert reaches the table while its username or
\* its email is held by a persisted user (also one inserted by a concurrent
\* register request) is answered 400 "User already exists", and the table is
\* left as it was.
C1_DuplicateRegisterRejected ==
    [][\A r \in Req :
         (Executed(r, "create_commit") /\ Conflicts(args[r].body))
            => /\ resp'[r].status_code = 400
               /\ resp'[r].message = "User already exists"
               /\ resp'[r].layer = "endpoint"
               /\ users' = users]_vars

\* A register request was answered 400 after a concurrent register request,
\* still in flight, had inserted its row.
C1_Witness ==
    \E r, q \in Req :
        /\ r # q
        /\ args[r].kind = "create" /\ pc[r] = "exit" /\ resp[r].status_code = 400
        /\ args[q].kind = "create" /\ pc[q] = "create_refresh"

\* C2: in every reachable state no two persisted users share a username and no
\* two share an email.
C2_UniqueUsernameAndEmail ==
    \A u, v \in users : u # v => (u.username # v.username /\ u.email # v.email)

\* An update that would have duplicated a username or email was rejected while
\* two users are persisted.
C2_Witness ==
    \E r \in Req :
        /\ args[r].kind = "update" /\ pc[r] = "exit"
        /\ fault[r].cls = "IntegrityError(unique)"
        /\ Cardinality(users) = 2


\* C3 as stated: a register request whose username and email are free when its
\* insert runs is answered 201, and that insert persists exactly one new user
\* with the supplied values, a new id and updated_at = created_at.
FreshInsertEffect(r) ==
    \E u \in users' :
        /\ u \notin users
        /\ users' = users \cup {u}
        /\ \A f \in Fields : u[f] = args[r].body[f]
        /\ \A v \in users : v.id # u.id
        /\ u.updated_at = u.created_at
        /\ obj'[r].id = u.id

C3_FreshRegisterAlways201 ==
    /\ [](\A r \in Req :
            (/\ args[r].kind = "create"
             /\ pc[r] = "exit"
             /\ fault[r].cls \notin EnvFaults \cup {"IntegrityError(unique)"})
               => (resp[r].status_code = 201
                   /\ resp[r].message = "User created successfully"))
    /\ [][\A r \in Req :
            (Executed(r, "create_commit") /\ ~Conflicts(args[r].body))
               => FreshInsertEffect(r)]_vars

\* C3, amended: the insert of such a request persists exactly one new user with
\* the supplied (or defaulted) values, an id no other persisted user has and
\* updated_at = created_at; when its reload then runs, the request is answered
\* 201 if the reload finds the row, and 500 with the reload's fault text if a
\* concurrent request deleted the row before the reload.  The reload changes
\* nothing.
C3_FreshRegisterPersistsOneUser ==
    [][\A r \in Req :
         /\ (Executed(r, "create_commit") /\ ~Conflicts(args[r].body))
               => (FreshInsertEffect(r) /\ pc'[r] = "create_refresh")
         /\ Executed(r, "create_refresh")
               => /\ users' = users
                  /\ IF \E u \in users : u.id = obj[r].id
                     THEN /\ resp'[r].status_code = 201
                          /\ resp'[r].message = "User created successfully"
                     ELSE /\ resp'[r].status_code = 500
                          /\ resp'[r].message = Str("InvalidRequestError")]_vars

\* A register request supplying its own flags was answered 201 and its user is
\* persisted as supplied, with equal timestamps.
C3_Witness ==
    \E r \in Req :
        /\ args[r].kind = "create" /\ pc[r] = "exit" /\ resp[r].status_code = 201
        /\ \E u \in users :
              /\ u.id = resp[r].data[1].id
              /\ u.is_superuser = "true"
              /\ u.updated_at = u.created_at

\* C4: the commit of an update request changes, of the fields a caller can set,
\* only those present in the body; the other fields of that user, its id and
\* created_at, and every other persisted user keep their values.  The lookup
\* and the reload of the request change nothing, so this is all a request
\* answered 200 has changed.
C4_UpdateChangesOnlySuppliedFields ==
    [][\A r \in Req :
         /\ Executed(r, "update_commit")
               => /\ {v.id : v \in users'} = {u.id : u \in users}
                  /\ \A u \in users : u.id # obj[r].id => u \in users'
                  /\ \A u \in users : \A v \in users' :
                        u.id = v.id
                           => /\ v.created_at = u.created_at
                              /\ \A f \in Fields \ SetFields(args[r].body) : v[f] = u[f]
         /\ (Executed(r, "update_select") \/ Executed(r, "update_refresh"))
               => users' = users]_vars

\* An update request was answered 200 and returns its user with updated_at
\* moved past created_at.
C4_Witness ==
    \E r \in Req :
        /\ args[r].kind = "update" /\ pc[r] = "exit" /\ resp[r].status_code = 200
        /\ resp[r].data[1].updated_at # resp[r].data[1].created_at

\* C5 as stated: whenever get-by-id, update or delete does a database round trip
\* while no persisted user has the requested id (the row may have been removed
\* by a concurrent delete while the request was in flight), the request is
\* answered 404 "User not found" and the table is unchanged.
ByIdKinds == {"get", "update", "delete"}

RowMissing(r) == \A u \in users : u.id # args[r].user_id

NotFound(r) ==
    /\ resp'[r].status_code = 404
    /\ resp'[r].message = "User not found"
    /\ resp'[r].layer = "endpoint"

C5_MissingRowAlways404 ==
    [][\A r \in Req :
         (/\ args[r].kind \in ByIdKinds
          /\ \E p \in BodyPcs : Executed(r, p)
          /\ RowMissing(r))
            => (NotFound(r) /\ users' = users)]_vars

\* C5, amended: when the lookup of a get-by-id, update or delete request finds
\* no persisted user with the requested id (also when a concurrent delete
\* removed it before the lookup), the request is answered 404 "User not found"
\* and the table is unchanged.  When the row is removed after the lookup the
\* table is also left unchanged, but an update is answered 500 (at its commit or
\* at its reload) and a delete is answered 200.
C5_LookupMissIs404 ==
    [][\A r \in Req :
         /\ (/\ \E p \in {"get_select", "update_select", "delete_select"} : Executed(r, p)
             /\ RowMissing(r))
               => (NotFound(r) /\ users' = users)
         /\ (Executed(r, "update_commit") /\ RowMissing(r))
               => /\ users' = users
                  /\ \/ pc'[r] = "update_refresh"
                     \/ (resp'[r].status_code = 500
                         /\ resp'[r].message = Str("StaleDataError"))
         /\ (Executed(r, "update_refresh") /\ RowMissing(r))
               => /\ users' = users
                  /\ resp'[r].status_code = 500
                  /\ resp'[r].message = Str("InvalidRequestError")
         /\ (Executed(r, "delete_commit") /\ RowMissing(r))
               => /\ users' = users
                  /\ resp'[r].status_code = 200]_vars

\* An update request was answered 404 for a user that a delete request, not yet
\* closed, had removed.
C5_Witness ==
    \E r, q \in Req :
        /\ args[r].kind = "update" /\ pc[r] = "exit" /\ resp[r].status_code = 404
        /\ args[r].user_id \in gone
        /\ args[q].kind = "delete" /\ pc[q] = "exit" /\ args[q].user_id = args[r].user_id

\* C6: the commit of a delete request is answered 200 "User deleted
\* successfully" and removes the rows with that id and no other; a user whose
\* delete has returned is never persisted again, and a get-by-id whose lookup
\* comes after that return is answered 404.
C6_DeletedStaysGone ==
    [][/\ \A r \in Req :
            /\ Executed(r, "delete_commit")
                  => /\ resp'[r].status_code = 200
                     /\ resp'[r].message = "User deleted successfully"
                     /\ users' = {u \in users : u.id # obj[r].id}
            /\ (Executed(r, "get_select") /\ args[r].user_id \in gone)
                  => NotFound(r)
       /\ \A u \in users' : u.id \notin gone']_vars

\* A get-by-id for a user whose delete had returned was answered 404.
C6_Witness ==
    \E r \in Req :
        /\ args[r].kind = "get" /\ pc[r] = "exit" /\ resp[r].status_code = 404
        /\ args[r].user_id \in gone


\* C7: when requests run one at a time, the list operation for page >= 1 and
\* per_page in 1..100 over N persisted users is answered 200 with
\* min(per_page, max(0, N - (page-1)*per_page)) items, total = N, and page and
\* per_page as given; neither of its two queries changes the table.
C7_ListPageAndTotal ==
    [][\A r \in Req :
         /\ Executed(r, "list_select") => users' = users
         /\ Executed(r, "list_count")
               => LET N == Cardinality(users)
                      page == args[r].page
                      per_page == args[r].per_page
                  IN /\ page >= 1 /\ per_page >= 1 /\ per_page <= PerPageMax
                     /\ resp'[r].status_code = 200
                     /\ resp'[r].shape = "list"
                     /\ Len(resp'[r].data) = Min(per_page, Max(0, N - (page - 1) * per_page))
                     /\ resp'[r].total = N
                     /\ resp'[r].page = page
                     /\ resp'[r].per_page = per_page
                     /\ users' = users]_vars

\* The second page of one item was listed out of two persisted users.
C7_Witness ==
    \E r \in Req :
        /\ args[r].kind = "list" /\ pc[r] = "exit" /\ resp[r].status_code = 200
        /\ resp[r].page = 2 /\ resp[r].per_page = 1
        /\ Len(resp[r].data) = 1 /\ resp[r].total = 2
        /\ resp[r].data[1].id = 2

\* C8: a request that is not in flight holds no open session, whichever way it
\* ended: normal return, 400/404, a fault caught in the endpoint, a validation
\* failure, or a fault that went to the global handlers.
C8_SessionClosedAfterRequest ==
    \A r \in Req : ~InFlight(r) => sess[r] # "open"

\* A request that ended with a fault outside the endpoint body has finished and
\* its session is closed.
C8_Witness ==
    \E r \in Req :
        /\ pc[r] = "done" /\ sess[r] = "closed"
        /\ fault[r].at = "outside" /\ fault[r].cls \in EnvFaults

\* C9: a fault raised inside an endpoint body is answered by the endpoint
\* itself, 500 with the fault's text (400 for the integrity fault of register);
\* a response of the global handlers is always for a fault raised outside the
\* endpoint bodies.
C9_BodyFaultsCaughtLocally ==
    \A r \in Req :
        pc[r] = "exit"
           => /\ fault[r].at = "body"
                    => /\ resp[r].layer = "endpoint"
                       /\ IF args[r].kind = "create" /\ IsIntegrityError(fault[r].cls)
                          THEN resp[r].status_code = 400
                          ELSE /\ resp[r].status_code = 500
                               /\ resp[r].message = Str(fault[r].cls)
              /\ resp[r].layer = "global" => fault[r].at = "outside"

\* An update request whose commit hit a constraint was answered 500 by its
\* endpoint with the fault's text.
C9_Witness ==
    \E r \in Req :
        /\ pc[r] = "exit" /\ args[r].kind = "update"
        /\ fault[r].at = "body" /\ IsIntegrityError(fault[r].cls)
        /\ resp[r].layer = "endpoint" /\ resp[r].status_code = 500
        /\ resp[r].message = Str(fault[r].cls)

\* C10: in a production-configured process no response carries the internal
\* text of a database fault or of an unclassified fault.
C10_NoInternalTextInProduction ==
    is_production => \A r \in Req : resp[r].message \notin InternalTexts

\* C11: every persisted user has updated_at >= created_at, and the created_at
\* of a persisted user is the same in the next state whenever the user is still
\* persisted there, whatever register, update or delete request takes the step.
C11_TimestampsOrdered ==
    /\ [](\A u \in users : u.updated_at >= u.created_at)
    /\ [][\A u \in users : \A v \in users' :
            v.id = u.id => v.created_at = u.created_at]_vars

\* An update request has returned 200 for a user whose row now carries a later
\* updated_at than created_at.
C11_Witness ==
    \E r \in Req : \E u \in users :
        /\ args[r].kind = "update" /\ pc[r] = "exit" /\ resp[r].status_code = 200
        /\ u.id = args[r].user_id
        /\ u.updated_at > u.created_at

\* C13: no user whose delete has committed is persisted in any later state; an
\* update request that read the row before that commit and reaches its own
\* commit or reload afterwards leaves the table as it is and is not answered
\* 200.
C13_UpdateCannotReviveDeleted ==
    [][/\ \A u \in users' : u.id \notin gone'
       /\ \A r \in Req :
            (/\ args[r].kind = "update"
             /\ Step(r, "update_commit") \/ Step(r, "update_refresh")
             /\ obj[r].id \in gone)
               => /\ users' = users
                  /\ resp'[r].status_code # 200
                  /\ pc'[r] = "exit" => resp'[r].status_code = 500]_vars

\* An update request read a row, a delete of that row committed, and the
\* update's UPDATE then matched no row: it was answered 500 and the user is not
\* persisted.
C13_Witness ==
    \E r \in Req :
        /\ args[r].kind = "update" /\ pc[r] = "exit"
        /\ fault[r].cls = "StaleDataError"
        /\ resp[r].status_code = 500
        /\ args[r].user_id \in gone
        /\ \A u \in users : u.id # args[r].user_id

\* The steps of the setup script, in the order main reaches them.
StepOrder == <<"check_version", "check_env", "create_migration", "apply_migrations">>

\* The step recorded in log entry e did not succeed on this host.
StepFailed(e) ==
    CASE e.step = "check_version" ->
             ~(\/ host.version[1] > 3
               \/ host.version[1] = 3 /\ host.version[2] >= 8)
      [] e.step = "check_env" -> ~host.env_file
      [] OTHER -> ~(e.out.error = "none" /\ e.out.rc = 0)

\* C12: the steps of the setup script that were carried out are an initial
\* part of: interpreter version check, .env check, migration generation,
\* migration application; every step before the last one carried out
\* succeeded (so the migration is generated only after both checks passed and
\* applied only after it was generated); and the process exits with status 1
\* exactly when a step that was carried out failed and with status 0 exactly
\* when all four were carried out and succeeded.
C12_SetupStopsAtFirstFailure ==
    LET log == setup.log
    IN /\ Len(log) <= Len(StepOrder)
       /\ \A i \in 1..Len(log) : log[i].step = StepOrder[i]
       /\ \A i \in 1..(Len(log) - 1) : ~StepFailed(log[i])
       /\ setup.pc = "exited" =>
             /\ setup.status \in {<<0>>, <<1>>}
             /\ setup.status = <<1>> <=> \E i \in 1..Len(log) : StepFailed(log[i])
             /\ setup.status = <<0>> <=>
                   (Len(log) = Len(StepOrder) /\ \A i \in 1..Len(log) : ~StepFailed(log[i]))
       /\ setup.pc # "exited" => setup.status = <<>>

\* Both checks passed, the migration could not be generated, and the script
\* exited with status 1 without applying migrations.
C12_Witness ==
    /\ setup.pc = "exited" /\ setup.status = <<1>>
    /\ Len(setup.log) = 3
    /\ setup.log[3].step = "create_migration"
    /\ setup.log[3].out.rc # 0

====
